---- MODULE Spec2Model ----
(***************************************************************************)
(* A model of vimwiki-markdown-rs: the link rewriter (src/src/links.rs),   *)
(* the variable store and the directive applier (src/src/commands.rs, and  *)
(* the same code inlined in VimWikiOptions::get_body_html, src/src/lib.rs).*)
(*                                                                         *)
(* A Rust string is a sequence of one-character strings, so that every     *)
(* conversion of the code (replace, split, the std::path methods, the      *)
(* regular expressions) is computed character by character.                *)
(***************************************************************************)
EXTENDS Naturals, Sequences, FiniteSets

(***************************************************************************)
(* Strings                                                                 *)
(***************************************************************************)
Take(s, n) == SubSeq(s, 1, n)
Drop(s, n) == SubSeq(s, n + 1, Len(s))
Last(s) == s[Len(s)]
Front(s) == SubSeq(s, 1, Len(s) - 1)
StartsWith(s, p) == Len(s) >= Len(p) /\ SubSeq(s, 1, Len(p)) = p
EndsWith(s, p) == Len(s) >= Len(p) /\ SubSeq(s, Len(s) - Len(p) + 1, Len(s)) = p
MaxOf(S) == CHOOSE x \in S : \A y \in S : y <= x
MinOf(S) == CHOOSE x \in S : \A y \in S : x <= y
\* s contains p as a substring
Contains(s, p) == \E i \in 0..(Len(s) - Len(p)) : SubSeq(s, i + 1, i + Len(p)) = p

RECURSIVE Concat(_)
Concat(ss) == IF ss = <<>> THEN <<>> ELSE Head(ss) \o Concat(Tail(ss))

\* str::replace(from, to): every non-overlapping occurrence, left to right
RECURSIVE Replace(_, _, _)
Replace(s, from, to) ==
    IF s = <<>> THEN <<>>
    ELSE IF StartsWith(s, from) THEN to \o Replace(Drop(s, Len(from)), from, to)
    ELSE <<Head(s)>> \o Replace(Tail(s), from, to)

\* str::split(c): the pieces between the occurrences of c ("" gives [""])
RECURSIVE Split(_, _)
Split(s, c) ==
    LET idx == {i \in 1..Len(s) : s[i] = c}
    IN  IF idx = {} THEN <<s>>
        ELSE LET i == MinOf(idx) IN <<Take(s, i - 1)>> \o Split(Drop(s, i), c)

\* regex \s
IsWs(c) == c \in {" ", "\t", "\n"}

\* an absent value (Option::None), and the outcome of a panic
None == <<"<none>">>
Panic == <<"<panic>">>

S_file == <<"f", "i", "l", "e", ":">>
S_local == <<"l", "o", "c", "a", "l", ":">>
S_html == <<".", "h", "t", "m", "l">>
S_pct20 == <<"%", "2", "0">>
S_wiki == <<"w", "i", "k", "i">>

(***************************************************************************)
(* std::path (Unix), path_clean and pathdiff, as links.rs uses them        *)
(***************************************************************************)
RootDir == <<"/">>
CurDir == <<".">>
ParentDir == <<".", ".">>

HasRoot(s) == s # <<>> /\ s[1] = "/"
IsAbsolute(s) == HasRoot(s)

\* a leading "." of a relative path is a component, any other "." is not
IncludeCurDir(s) ==
    ~HasRoot(s) /\ s # <<>> /\ s[1] = "." /\ (Len(s) = 1 \/ s[2] = "/")

LenBeforeBody(s) == IF HasRoot(s) \/ IncludeCurDir(s) THEN 1 ELSE 0

RECURSIVE BodyComps(_)
BodyComps(segs) ==
    IF segs = <<>> THEN <<>>
    ELSE IF Head(segs) = <<>> \/ Head(segs) = CurDir THEN BodyComps(Tail(segs))
    ELSE <<Head(segs)>> \o BodyComps(Tail(segs))

\* Path::components()
Components(s) ==
    (IF HasRoot(s) THEN <<RootDir>> ELSE IF IncludeCurDir(s) THEN <<CurDir>> ELSE <<>>)
        \o BodyComps(Split(Drop(s, LenBeforeBody(s)), "/"))

\* collecting components into a PathBuf: push after push
RECURSIVE JoinComps(_)
JoinComps(cs) ==
    IF cs = <<>> THEN <<>>
    ELSE IF Len(cs) = 1 THEN cs[1]
    ELSE LET f == JoinComps(Front(cs))
         IN  IF Last(cs) = RootDir THEN RootDir
             ELSE IF Last(f) = "/" THEN f \o Last(cs)
             ELSE f \o <<"/">> \o Last(cs)

\* Path::join / PathBuf::push
Join(base, p) ==
    IF IsAbsolute(p) THEN p
    ELSE IF base = <<>> \/ Last(base) = "/" THEN base \o p
    ELSE base \o <<"/">> \o p

\* the last raw component of the body of s and the bytes it takes
BackComp(s, lb) ==
    LET idx == {i \in (lb + 1)..Len(s) : s[i] = "/"}
    IN  IF idx = {} THEN [size |-> Len(s) - lb, comp |-> SubSeq(s, lb + 1, Len(s))]
        ELSE [size |-> Len(s) - MaxOf(idx) + 1,
              comp |-> SubSeq(s, MaxOf(idx) + 1, Len(s))]

\* Components::trim_right: trailing separators and "." components dropped
RECURSIVE TrimRight(_, _)
TrimRight(s, lb) ==
    IF Len(s) <= lb THEN s
    ELSE LET b == BackComp(s, lb)
         IN  IF b.comp # <<>> /\ b.comp # CurDir THEN s
             ELSE TrimRight(Take(s, Len(s) - b.size), lb)

\* Path::parent(): None for "", for a root; the path without its last component
PathParent(s) ==
    LET lb == LenBeforeBody(s)
        t == TrimRight(s, lb)
    IN  IF Len(t) > lb
        THEN TrimRight(Take(t, Len(t) - BackComp(t, lb).size), lb)
        ELSE IF IncludeCurDir(s) THEN <<>>
        ELSE None

\* Path::file_name(): None when the path ends in "..", is a root or is empty
FileName(s) ==
    LET lb == LenBeforeBody(s)
        t == TrimRight(s, lb)
    IN  IF Len(t) > lb /\ BackComp(t, lb).comp # ParentDir
        THEN BackComp(t, lb).comp
        ELSE None

\* the stem of a file name: up to its last dot, unless that dot is its first byte
StemOf(name) ==
    LET dots == {i \in 1..Len(name) : name[i] = "."}
    IN  IF dots = {} \/ MaxOf(dots) = 1 THEN name ELSE Take(name, MaxOf(dots) - 1)

\* Path::file_stem()
FileStem(s) == IF FileName(s) = None THEN None ELSE StemOf(FileName(s))

\* Path::with_extension(ext): unchanged without a file name; the path is cut
\* after the stem of its file name and "." and ext follow unless ext is empty
WithExtension(s, ext) ==
    IF FileName(s) = None THEN s
    ELSE LET t == TrimRight(s, LenBeforeBody(s))
             name == FileName(s)
         IN  Take(t, Len(t) - Len(name) + Len(StemOf(name)))
                 \o (IF ext = <<>> THEN <<>> ELSE <<".">> \o ext)

\* path_clean: "." dropped, ".." taken against a preceding real component
RECURSIVE CleanComps(_, _)
CleanComps(cs, out) ==
    IF cs = <<>> THEN out
    ELSE LET c == Head(cs) IN
         IF c = CurDir THEN CleanComps(Tail(cs), out)
         ELSE IF c = ParentDir
         THEN IF out = <<>> THEN CleanComps(Tail(cs), <<c>>)
              ELSE IF Last(out) = RootDir THEN CleanComps(Tail(cs), out)
              ELSE IF Last(out) = ParentDir THEN CleanComps(Tail(cs), Append(out, c))
              ELSE CleanComps(Tail(cs), Front(out))
         ELSE CleanComps(Tail(cs), Append(out, c))

Clean(s) ==
    LET out == CleanComps(Components(s), <<>>)
    IN  IF out = <<>> THEN CurDir ELSE JoinComps(out)

\* pathdiff::diff_paths on the two component lists, comps the result so far
RECURSIVE DiffComps(_, _, _)
DiffComps(a, b, comps) ==
    IF a = <<>> /\ b = <<>> THEN comps
    ELSE IF b = <<>> THEN comps \o a
    ELSE IF a = <<>> THEN DiffComps(a, Tail(b), Append(comps, ParentDir))
    ELSE IF comps = <<>> /\ Head(a) = Head(b) THEN DiffComps(Tail(a), Tail(b), comps)
    ELSE IF Head(b) = CurDir THEN DiffComps(Tail(a), Tail(b), Append(comps, Head(a)))
    ELSE IF Head(b) = ParentDir THEN None
    ELSE comps \o [i \in 1..Len(b) |-> ParentDir] \o a

DiffPaths(path, base) ==
    IF IsAbsolute(path) # IsAbsolute(base)
    THEN IF IsAbsolute(path) THEN path ELSE None
    ELSE LET d == DiffComps(Components(path), Components(base), <<>>)
         IN  IF d = None THEN None ELSE JoinComps(d)

(***************************************************************************)
(* links.rs                                                                *)
(***************************************************************************)
\* handle_spaces, had it escaped the percent sign as well
HandleSpacesAndPercent(path) ==
    Replace(Replace(path, <<"%">>, <<"%", "2", "5">>), <<" ">>, S_pct20)

\* handle_spaces
HandleSpaces(path) == Replace(path, <<" ">>, S_pct20)

\* handle_fragment, had it split at the first '#' however many there are
HandleFragmentAtFirstHash(u) ==
    LET split == Split(u, "#")
    IN  IF Len(split) = 1 THEN <<split[1], None>>
        ELSE <<split[1], Drop(u, Len(split[1]) + 1)>>

\* handle_fragment: (url, fragment), the fragment None unless there is one '#'
HandleFragment(u) ==
    LET split == Split(u, "#")
    IN  IF Len(split) = 1 THEN <<split[1], None>>
        ELSE IF Len(split) = 2 THEN <<split[1], split[2]>>
        ELSE <<u, None>>

\* fix_link_vimwiki
FixLinkVimwiki(u) ==
    LET url_raw == HandleFragment(u)[1]
        fragment == HandleFragment(u)[2]
    IN  IF PathParent(url_raw) = None \/ FileStem(url_raw) = None THEN Panic
        ELSE LET url == Join(PathParent(url_raw), FileStem(url_raw))
             IN  IF fragment # None
                 THEN url \o S_html \o <<"#">> \o HandleSpaces(fragment)
                 ELSE url \o S_html

\* the first index after the whitespace run that starts at i
RECURSIVE WsRunEnd(_, _)
WsRunEnd(s, i) == IF i <= Len(s) /\ IsWs(s[i]) THEN WsRunEnd(s, i + 1) ELSE i

\* the regex \s+" matches at i
TitleMatchAt(s, i) ==
    IsWs(s[i]) /\ WsRunEnd(s, i) <= Len(s) /\ s[WsRunEnd(s, i)] = "\""

\* Regex::split for \s+"
RECURSIVE SplitTitle(_)
SplitTitle(s) ==
    LET idx == {i \in 1..Len(s) : TitleMatchAt(s, i)}
    IN  IF idx = {} THEN <<s>>
        ELSE LET i == MinOf(idx)
             IN  <<Take(s, i - 1)>> \o SplitTitle(Drop(s, WsRunEnd(s, i)))

\* fix_link_rest::handle_title: (url, title)
HandleTitle(u) ==
    LET split == SplitTitle(u)
    IN  IF Len(split) = 1 THEN <<split[1], None>>
        ELSE IF Len(split) = 2 THEN <<split[1], split[2]>>
        ELSE <<u, None>>

\* the path fix_link_rest builds before cleaning it; None when unwrap() fails
RestPath(url_raw, input_dir, out_dir) ==
    IF StartsWith(url_raw, S_file)
    THEN LET tmp == Replace(url_raw, S_file, <<>>)
         IN  IF IsAbsolute(tmp) THEN tmp ELSE Join(input_dir, tmp)
    ELSE IF StartsWith(url_raw, S_local)
    THEN DiffPaths(Join(input_dir, Replace(url_raw, S_local, <<>>)), out_dir)
    ELSE url_raw

\* fix_link_rest, had it encoded the spaces after attaching the title
FixLinkRestTitleEncoded(u, input_dir, out_dir) ==
    LET url_raw == HandleTitle(u)[1]
        title == HandleTitle(u)[2]
        path == RestPath(url_raw, input_dir, out_dir)
    IN  IF path = None THEN Panic
        ELSE IF title # None
        THEN HandleSpaces(Clean(path) \o <<" ", "\"">> \o title)
        ELSE HandleSpaces(Clean(path))

\* fix_link_rest
FixLinkRest(u, input_dir, out_dir) ==
    LET url_raw == HandleTitle(u)[1]
        title == HandleTitle(u)[2]
        path == RestPath(url_raw, input_dir, out_dir)
    IN  IF path = None THEN Panic
        ELSE LET url == HandleSpaces(Clean(path))
             IN  IF title # None THEN url \o <<" ", "\"">> \o title ELSE url

\* the file system: the regular files that exist, as clean absolute paths
IsFile(path, fs) == Clean(path) \in fs

\* fix_link::is_vimwiki_link
IsVimwikiLink(input_dir, u, ext, fs) ==
    IsFile(WithExtension(Join(input_dir, HandleFragment(u)[1]), ext), fs)

\* fix_link
FixLink(a, u, in_file, out_dir, ext, fs) ==
    LET input_dir == PathParent(in_file)
    IN  IF input_dir = None THEN Panic
        ELSE LET r == IF IsVimwikiLink(input_dir, u, ext, fs)
                      THEN FixLinkVimwiki(u)
                      ELSE FixLinkRest(u, input_dir, out_dir)
             IN  IF r = Panic THEN Panic
                 ELSE <<"[">> \o a \o <<"]", "(">> \o r \o <<")">>

\* the uri inside a link "[alt](uri)" that fix_link returned for alt
LinkUri(l, a) == SubSeq(l, Len(a) + 4, Len(l) - 1)

(***************************************************************************)
(* commands.rs: the variable store                                         *)
(***************************************************************************)
S_defOpen == <<"<", "'", "'", "'">>
S_defClose == <<"'", "'", "'", ">">>
S_markOpen == <<"'", "{">>
S_markClose == <<"}", "'">>

At(text, i, p) == i + Len(p) - 1 <= Len(text) /\ SubSeq(text, i, i + Len(p) - 1) = p
NoNewline(text, i, j) == \A x \in i..j : text[x] # "\n"

\* RE_DEF, <'''(.|\n)*'''>: from the first <''' that some '''> follows to the
\* last '''> of the text (greedy); <<first index, last index>> or None
DefSpan(text) ==
    LET closes == {j \in 1..Len(text) : At(text, j, S_defClose)}
        opens == {i \in 1..Len(text) :
                    At(text, i, S_defOpen) /\ \E j \in closes : j >= i + 4}
    IN  IF opens = {} THEN None ELSE <<MinOf(opens), MaxOf(closes) + 3>>

DefData(text) == SubSeq(text, DefSpan(text)[1] + 4, DefSpan(text)[2] - 4)

\* RE_DEF_SINGLE, (\S*?)\{([^}]*?)\}: every match in data, as <<key, value>>
RECURSIVE DefSingles(_)
DefSingles(data) ==
    LET opens == {b \in 1..Len(data) :
                    data[b] = "{" /\ \E c \in (b + 1)..Len(data) : data[c] = "}"}
    IN  IF opens = {} THEN <<>>
        ELSE LET b == MinOf(opens)
                 c == MinOf({x \in (b + 1)..Len(data) : data[x] = "}"})
                 ws == {x \in 1..(b - 1) : IsWs(data[x])}
                 start == IF ws = {} THEN 1 ELSE MaxOf(ws) + 1
             IN  << <<SubSeq(data, start, b - 1), SubSeq(data, b + 1, c - 1)>> >>
                     \o DefSingles(Drop(data, c))

\* HashMap::insert of each pair in turn: a later pair replaces an earlier one
RECURSIVE InsertAll(_, _)
InsertAll(map, pairs) ==
    IF pairs = <<>> THEN map
    ELSE InsertAll([k \in DOMAIN map \cup {pairs[1][1]} |->
                        IF k = pairs[1][1] THEN pairs[1][2] ELSE map[k]],
                   Tail(pairs))

\* VarStore::new
EmptyMap == [k \in {} |-> <<>>]

\* VarStore::parse_variables: the pairs of the first RE_DEF match
ParseVariables(map, input) ==
    IF DefSpan(input) = None THEN map
    ELSE InsertAll(map, DefSingles(DefData(input)))

\* VarStore::clear_variables: RE_DEF.replace_all(text, "")
ClearVariables(text) ==
    IF DefSpan(text) = None THEN text
    ELSE Take(text, DefSpan(text)[1] - 1) \o Drop(text, DefSpan(text)[2])

\* RE_VAR, '\{(.*?)\$(\S+?)(\s.*?\}|\})': for a variable name that ends at e,
\* the index of the brace that closes the match, 0 when there is none
VarClose(text, e) ==
    IF At(text, e + 1, S_markClose) THEN e + 1
    ELSE IF e + 1 <= Len(text) /\ IsWs(text[e + 1])
    THEN LET cs == {c \in (e + 2)..Len(text) :
                      At(text, c, S_markClose) /\ NoNewline(text, e + 2, c - 1)}
         IN  IF cs = {} THEN 0 ELSE MinOf(cs)
    ELSE 0

\* the ends of the names that can follow the dollar at d
VarEnds(text, d) ==
    {e \in (d + 1)..Len(text) :
        (\A x \in (d + 1)..e : ~IsWs(text[x])) /\ VarClose(text, e) # 0}

\* the dollars that can follow the '{ at a
VarDollars(text, a) ==
    {d \in (a + 2)..Len(text) :
        text[d] = "$" /\ NoNewline(text, a + 2, d - 1) /\ VarEnds(text, d) # {}}

\* the indices where some match of RE_VAR starts
VarStarts(text) ==
    {a \in 1..Len(text) : At(text, a, S_markOpen) /\ VarDollars(text, a) # {}}

\* the leftmost match of RE_VAR in a text that has one: its first index a, its
\* dollar d (the first that works: "before" is lazy), the end e of its name (the
\* first that works: the name is lazy) and its closing brace c
VarMatch(text) ==
    LET a == MinOf(VarStarts(text))
        d == MinOf(VarDollars(text, a))
        e == MinOf(VarEnds(text, d))
    IN  [a |-> a, d |-> d, e |-> e, c |-> VarClose(text, e)]

\* VarStore::replace_variables: RE_VAR.replace_all with the closure that looks
\* the name up and panics when the map has no such key
RECURSIVE ReplaceVariables(_, _)
ReplaceVariables(map, text) ==
    IF VarStarts(text) = {} THEN text
    ELSE LET m == VarMatch(text)
             var == SubSeq(text, m.d + 1, m.e)
             before == SubSeq(text, m.a + 2, m.d - 1)
             after == SubSeq(text, m.e + 1, m.c - 1)
             rest == ReplaceVariables(map, Drop(text, m.c + 1))
         IN  IF var \notin DOMAIN map \/ rest = Panic THEN Panic
             ELSE Take(text, m.a - 1)
                    \o S_markOpen \o before \o map[var] \o after \o S_markClose
                    \o rest

(***************************************************************************)
(* commands.rs: the directive applier                                      *)
(***************************************************************************)
RECURSIVE NonWsRunEnd(_, _)
NonWsRunEnd(s, i) == IF i <= Len(s) /\ ~IsWs(s[i]) THEN NonWsRunEnd(s, i + 1) ELSE i

\* RE_CMD, '\{(\S+)\s+(\S+)\s+(.*?)\}', tried at index a. The element and the
\* type are whole runs of non-space characters, because white space has to
\* follow each; the data is lazy and ends at the first }' of the line.
CmdCapture(text, a) ==
    LET t1 == NonWsRunEnd(text, a + 2)
        t2 == WsRunEnd(text, t1)
        t3 == NonWsRunEnd(text, t2)
        t4 == WsRunEnd(text, t3)
        cs == {c \in t4..Len(text) :
                 At(text, c, S_markClose) /\ NoNewline(text, t4, c - 1)}
        c == IF cs = {} THEN 0 ELSE MinOf(cs)
    IN  [matched |-> At(text, a, S_markOpen) /\ t1 > a + 2 /\ t2 > t1
                        /\ t3 > t2 /\ t4 > t3 /\ cs # {},
         element |-> SubSeq(text, a + 2, t1 - 1),
         type |-> SubSeq(text, t2, t3 - 1),
         data |-> SubSeq(text, t4, c - 1),
         last |-> c + 1]

CmdStarts(text) ==
    {a \in {x \in 1..Len(text) : At(text, x, S_markOpen)} : CmdCapture(text, a).matched}
\* RE_CMD.captures_iter(text).next() of a text that has a match
FirstCmd(text) == CmdCapture(text, MinOf(CmdStarts(text)))

\* RE_CMD.replace_all(text, ""): the matches, left to right, none overlapping
RECURSIVE StripCommands(_)
StripCommands(text) ==
    IF CmdStarts(text) = {} THEN text
    ELSE LET a == MinOf(CmdStarts(text))
         IN  Take(text, a - 1) \o StripCommands(Drop(text, CmdCapture(text, a).last))

StyleTypes == {<<"s">>, <<"s", "t">>, <<"s", "t", "y">>, <<"s", "t", "y", "l">>,
               <<"s", "t", "y", "l", "e">>}
ParentElements == {<<"p">>, <<"p", "a">>, <<"p", "a", "r">>, <<"p", "a", "r", "e">>,
                   <<"p", "a", "r", "e", "n">>, <<"p", "a", "r", "e", "n", "t">>}

\* a first-write-wins variant of InsertStyle: an attribute that is there is kept
InsertStyleIfAbsent(style, data) == IF style = None THEN data ELSE style
\* att.insert("style", data)
InsertStyle(style, data) == data

\* The tree is one paragraph of the body: [style, kids], each kid a text node
\* of the paragraph or an <em> element that holds one text node, the kids
\* separated by <br>. A kid is [tag, style, text]; a style is None when the
\* element has no such attribute.
\*
\* what is left of the tree when a panic unwinds the walk
Unwound == [style |-> Panic, kids |-> <<>>]

\* the closure of descendants().for_each for the text node of kid i
VisitText(tree, i) ==
    LET kid == tree.kids[i]
    IN  IF CmdStarts(kid.text) = {} THEN tree
        ELSE LET capture == FirstCmd(kid.text)
             IN  IF capture.type \notin StyleTypes THEN Unwound
                 ELSE IF capture.element \notin ParentElements THEN Unwound
                 ELSE IF kid.tag = "em"
                 THEN [tree EXCEPT !.kids[i].style = InsertStyle(@, capture.data)]
                 ELSE [tree EXCEPT !.style = InsertStyle(@, capture.data)]

\* descendants().for_each: the text nodes from kid i on, in document order
RECURSIVE VisitFrom(_, _)
VisitFrom(tree, i) ==
    IF tree = Unwound THEN Unwound
    ELSE IF i > Len(tree.kids) THEN tree
    ELSE VisitFrom(VisitText(tree, i), i + 1)

\* html5ever's serializer: escaping of text and of attribute values
S_amp == <<"&", "a", "m", "p", ";">>
EscapeText(s) ==
    Replace(Replace(Replace(s, <<"&">>, S_amp), <<"<">>, <<"&", "l", "t", ";">>),
            <<">">>, <<"&", "g", "t", ";">>)
EscapeAttr(s) ==
    Replace(Replace(s, <<"&">>, S_amp), <<"\"">>, <<"&", "q", "u", "o", "t", ";">>)

StartTag(name, style) ==
    <<"<">> \o name
        \o (IF style = None THEN <<>>
            ELSE <<" ", "s", "t", "y", "l", "e", "=", "\"">> \o EscapeAttr(style) \o <<"\"">>)
        \o <<">">>
EndTag(name) == <<"<", "/">> \o name \o <<">">>
S_em == <<"e", "m">>
S_p == <<"p">>
S_br == <<"<", "b", "r", ">">>
SerializeKid(kid) ==
    IF kid.tag = "em"
    THEN StartTag(S_em, kid.style) \o EscapeText(kid.text) \o EndTag(S_em)
    ELSE EscapeText(kid.text)
RECURSIVE SerializeKids(_)
SerializeKids(kids) ==
    IF kids = <<>> THEN <<>>
    ELSE IF Len(kids) = 1 THEN SerializeKid(kids[1])
    ELSE SerializeKid(kids[1]) \o S_br \o SerializeKids(Tail(kids))
\* document.to_string()
Serialize(tree) ==
    <<"<", "h", "t", "m", "l", ">", "<", "h", "e", "a", "d", ">",
      "<", "/", "h", "e", "a", "d", ">", "<", "b", "o", "d", "y", ">">>
        \o StartTag(S_p, tree.style) \o SerializeKids(tree.kids) \o EndTag(S_p)
        \o <<"<", "/", "b", "o", "d", "y", ">", "<", "/", "h", "t", "m", "l", ">">>

\* apply_commands on the parsed tree: the visit, then the strip of the
\* serialized tree
ApplyCommands(tree) ==
    LET walked == VisitFrom(tree, 1)
    IN  IF walked = Unwound THEN Panic ELSE StripCommands(Serialize(walked))

(***************************************************************************)
(* lib.rs: the links of a document                                         *)
(***************************************************************************)
\* the last index of the line that index a stands in
LineEnd(text, a) ==
    LET nls == {x \in a..Len(text) : text[x] = "\n"}
    IN  IF nls = {} THEN Len(text) ELSE MinOf(nls) - 1

\* the regex \[(.*)\]\((.)*\) tried at index a: both groups are greedy and stay
\* within the line, so the uri ends at the last ")" of the line and the title at
\* the last "](" before it
LinkCloses(text, a) == {c \in (a + 3)..LineEnd(text, a) : text[c] = ")"}
LinkMiddles(text, a) ==
    {b \in (a + 1)..LineEnd(text, a) :
        /\ At(text, b, <<"]", "(">>)
        /\ \E c \in LinkCloses(text, a) : c >= b + 2}
LinkStarts(text) ==
    {a \in {x \in 1..Len(text) : text[x] = "["} : LinkMiddles(text, a) # {}}

\* re.replace_all(&text, |caps| links::fix_link(...)): the matches left to
\* right, none overlapping; a panic of fix_link unwinds the whole call
RECURSIVE FixLinks(_, _, _, _, _)
FixLinks(text, in_file, out_dir, ext, fs) ==
    IF LinkStarts(text) = {} THEN text
    ELSE LET a == MinOf(LinkStarts(text))
             b == MaxOf(LinkMiddles(text, a))
             c == MaxOf(LinkCloses(text, a))
             fixed == FixLink(SubSeq(text, a + 1, b - 1), SubSeq(text, b + 2, c - 1),
                              in_file, out_dir, ext, fs)
             rest == FixLinks(Drop(text, c), in_file, out_dir, ext, fs)
         IN  IF fixed = Panic \/ rest = Panic THEN Panic
             ELSE Take(text, a - 1) \o fixed \o rest

(***************************************************************************)
(* lib.rs: VimWikiOptions::new                                             *)
(***************************************************************************)
NArgs == 12
S_markdown == <<"m", "a", "r", "k", "d", "o", "w", "n">>
\* args[i], with the index of the source, which counts from 0
Arg(args, i) == args[i + 1]
ErrAmount(n) == [tag |-> "Err", msg |-> "amount", provided |-> n, necessary |-> NArgs]
ErrSyntax == [tag |-> "Err", msg |-> "syntax"]
OkOptions(args) ==
    [tag |-> "Ok",
     force |-> Arg(args, 1) = <<"1">>,
     syntax |-> Arg(args, 2),
     extension |-> Arg(args, 3),
     output_dir |-> Arg(args, 4),
     input_file |-> Arg(args, 5),
     css_file |-> Arg(args, 6),
     template_file |-> Arg(args, 7) \o Arg(args, 8) \o Arg(args, 9),
     root_path |-> IF Arg(args, 10) = <<"-">> /\ Arg(args, 11) = <<"-">>
                   THEN <<".", "/">> ELSE Arg(args, 10)]

\* a variant of VimWikiOptionsNew that looks at the syntax first
VimWikiOptionsNewSyntaxFirst(args) ==
    IF Len(args) > 2 /\ Arg(args, 2) # S_markdown THEN ErrSyntax
    ELSE IF Len(args) = NArgs THEN OkOptions(args)
    ELSE ErrAmount(Len(args))

\* VimWikiOptions::new(args)
VimWikiOptionsNew(args) ==
    IF Len(args) = NArgs
    THEN IF Arg(args, 2) = S_markdown THEN OkOptions(args) ELSE ErrSyntax
    ELSE ErrAmount(Len(args))

(***************************************************************************)
(* The inputs of the link rewriter                                         *)
(***************************************************************************)
MaxSegs == 2

Alts == {<<"T">>}
Prefixes == {<<>>, S_file, S_local}
Segments == {<<>>, <<"p">>, ParentDir, CurDir, <<"p", " ", "q">>, <<"p", ".">> \o S_wiki}
Tails == {<<>>,
          <<"#", "s">>,
          <<"#", "s", " ", "t">>,
          <<"#", "s", "#", "t">>,
          <<" ", "\"", "T", " ", "U", "\"">>,
          <<" ", "\"", "T", "\"", "\t", "\"", "U", "\"">>,
          <<"\t", "\"", "T", "\"">>,
          <<"/">> \o S_file \o <<"p">>,
          <<"/">> \o S_local \o <<"p">>}

RECURSIVE JoinSegs(_)
JoinSegs(segs) ==
    IF Len(segs) = 1 THEN segs[1] ELSE JoinSegs(Front(segs)) \o <<"/">> \o Last(segs)

Bodies == {JoinSegs(segs) : segs \in UNION {[1..n -> Segments] : n \in 1..MaxSegs}}
Uris == {pre \o body \o tail : pre \in Prefixes, body \in Bodies, tail \in Tails}

InputFiles == {<<"/", "a", "/", "b", "/", "m", ".">> \o S_wiki}
OutputDirs == {<<"/", "a", "/", "s", "/", "b", "/">>, <<"/", "a", "/", ".", ".", "/", "s">>}
WikiFiles == {<<"/", "a", "/", "b", "/", "p", ".">> \o S_wiki,
              <<"/", "a", "/", "b", ".">> \o S_wiki}

(***************************************************************************)
(* The inputs of the variable store: documents made of definition blocks,  *)
(* reference markers and plain text                                        *)
(***************************************************************************)
MaxDocPieces == 3

Block_k == S_defOpen \o <<"k", "{", "v", "}">> \o S_defClose
Block_kj == S_defOpen \o <<"k", "{", "v", "}", " ", "j", "{", "w", " ", "x", "}">> \o S_defClose
Blocks == {Block_k, Block_kj}
Markers == {S_markOpen \o <<"$", "k">> \o S_markClose,
            S_markOpen \o <<"a", ":", " ", "$", "k", " ", "b">> \o S_markClose,
            S_markOpen \o <<"$", "k", " ", "$", "j">> \o S_markClose,
            S_markOpen \o <<"$", "u">> \o S_markClose,
            S_markOpen \o <<"$", "k", " ", "$", "u">> \o S_markClose}
PlainTexts == {<<"t">>, <<"\n">>}
Pieces == Blocks \cup Markers \cup PlainTexts
Documents == UNION {[1..n -> Pieces] : n \in 0..MaxDocPieces}

(***************************************************************************)
(* The inputs of the directive applier: parsed paragraphs                  *)
(***************************************************************************)
MaxKids == 2

Cmd_a == S_markOpen \o <<"p", " ", "s", " ", "a">> \o S_markClose
Cmd_b == S_markOpen \o <<"p", "a", "r", "e", "n", "t", " ", "s", "t", "y", "l", "e", " ", "b">>
            \o S_markClose
Texts == {<<"t">>,
          Cmd_a,
          Cmd_b,
          Cmd_a \o <<" ">> \o Cmd_b,
          S_markOpen \o <<"p", " ", "x", " ", "a">> \o S_markClose,
          S_markOpen \o <<"q", " ", "s", " ", "a">> \o S_markClose,
          <<"'">> \o Cmd_a \o <<"{", "p", " ", "s", " ", "b", "}", "'">>,
          S_markOpen \o <<"p", " ", "s", " ">> \o Cmd_b,
          S_markOpen \o <<"p", " ", "s", " ", "\"", "<">> \o S_markClose,
          <<"t", " ">> \o S_markOpen \o <<"p", " ", " ", "s", "t", "\t", "c", " ", "d">>
             \o S_markClose \o <<" ", "u">>,
          S_markOpen \o <<"p", " ", "s", " ", "a", "\n">> \o S_markClose,
          Cmd_a \o S_markOpen \o <<"q", " ", "x", " ", "b">> \o S_markClose}
EmTexts == {<<"t">>, Cmd_a, Cmd_b, Cmd_a \o <<" ">> \o Cmd_b}
Kids == [tag : {"text"}, style : {None}, text : Texts]
            \cup [tag : {"em"}, style : {None}, text : EmTexts]
Trees == [style : {None, <<"o">>}, kids : UNION {[1..n -> Kids] : n \in 1..MaxKids}]
EmptyTree == [style |-> None, kids |-> <<>>]

(***************************************************************************)
(* The inputs of the pipeline: the source document, whether it can be      *)
(* read, the tree the external renderer and parser make of the markdown,   *)
(* and whether the output file can be created and written                  *)
(***************************************************************************)
MaxPipePieces == 2

Link_p == <<"[", "T", "]", "(", "p", ")">>
Link_ps == <<"[", "U", "]", "(", "p", "#", "s", ")">>
Link_s == <<"[", "T", "]", "(", "#", "s", ")">>
PipeLinks == {Link_p, Link_ps, Link_s}
PipePieces ==
    {Block_k,
     S_markOpen \o <<"$", "k">> \o S_markClose,
     S_markOpen \o <<"$", "u">> \o S_markClose,
     <<"t">>, <<"\n">>} \cup PipeLinks
PipeDocuments == UNION {[1..n -> PipePieces] : n \in 0..MaxPipePieces}
PipeInputFile == <<"/", "a", "/", "b", "/", "m", ".">> \o S_wiki
PipeOutputDir == <<"/", "a", "/", "s", "/", "b", "/">>
PipeTrees ==
    {[style |-> None, kids |-> <<[tag |-> "text", style |-> None, text |-> t]>>] :
        t \in {<<"t">>, Cmd_a, S_markOpen \o <<"p", " ", "x", " ", "a">> \o S_markClose}}
S_content == <<"%", "c", "o", "n", "t", "e", "n", "t", "%">>
Template == <<"<", "d", "i", "v", ">">> \o S_content \o <<"<", "/", "d", "i", "v", ">">>

(***************************************************************************)
(* The inputs of VimWikiOptions::new: argument vectors                     *)
(***************************************************************************)
MaxArgs == 13

\* what the entry with index i (from 0) of an argument vector can be
ArgChoices(i) ==
    IF i = 1 THEN {<<"1">>, <<"0">>}
    ELSE IF i = 2 THEN {S_markdown, <<"v", "i", "m", "w", "i", "k", "i">>, <<>>}
    ELSE IF i = 3 THEN {S_wiki, S_markdown}
    ELSE IF i = 10 THEN {<<"-">>, <<".", ".", "/">>}
    ELSE IF i = 11 THEN {<<"-">>, <<"x">>}
    ELSE {<<"a">>}
RECURSIVE ArgVectorsOf(_)
ArgVectorsOf(n) ==
    IF n = 0 THEN {<<>>}
    ELSE {Append(v, x) : v \in ArgVectorsOf(n - 1), x \in ArgChoices(n - 1)}
ArgVectors == UNION {ArgVectorsOf(n) : n \in 0..MaxArgs}

(***************************************************************************)
(* The state                                                               *)
(***************************************************************************)
VARIABLES pc, alt, uri, input_file, output_dir, files, link, link2,
          doc, var_store, cleaned, markdown,
          document, mutated, html_out,
          body, linked, combined, out_file, result,
          args, options

linkVars == <<alt, uri, input_file, output_dir, files, link, link2>>
storeVars == <<doc, var_store, cleaned, markdown>>
cmdVars == <<document, mutated, html_out>>
pipeVars == <<body, linked, combined, out_file, result>>
optVars == <<args, options>>
vars == <<pc, linkVars, storeVars, cmdVars, pipeVars, optVars>>

Init ==
    /\ pc = "start"
    /\ alt = <<>>
    /\ uri = <<>>
    /\ input_file = <<>>
    /\ output_dir = <<>>
    /\ files = {}
    /\ link = <<>>
    /\ link2 = <<>>
    /\ doc = <<>>
    /\ var_store = EmptyMap
    /\ cleaned = <<>>
    /\ markdown = <<>>
    /\ document = EmptyTree
    /\ mutated = EmptyTree
    /\ html_out = <<>>
    /\ body = "none"
    /\ linked = <<>>
    /\ combined = <<>>
    /\ out_file = "untouched"
    /\ result = "none"
    /\ args = <<>>
    /\ options = [tag |-> "none"]

\* get_body_html hands one link of the document to fix_link
FixLinkCall ==
    /\ pc = "start"
    /\ \E a \in Alts, u \in Uris, f \in InputFiles, o \in OutputDirs, fs \in SUBSET WikiFiles :
        /\ alt' = a
        /\ uri' = u
        /\ input_file' = f
        /\ output_dir' = o
        /\ files' = fs
        /\ link' = FixLink(a, u, f, o, S_wiki, fs)
    /\ pc' = "linked"
    /\ UNCHANGED <<link2, storeVars, cmdVars, pipeVars, optVars>>

\* the uri of the rewritten link is handed to fix_link once more
FixLinkAgain ==
    /\ pc = "linked"
    /\ link # Panic
    /\ link2' = FixLink(alt, LinkUri(link, alt), input_file, output_dir, S_wiki, files)
    /\ pc' = "relinked"
    /\ UNCHANGED <<alt, uri, input_file, output_dir, files, link, storeVars, cmdVars, pipeVars, optVars>>

NextLinks == FixLinkCall \/ FixLinkAgain

SpecLinks == Init /\ [][NextLinks]_vars

\* get_body_html reads the document: fs::read_to_string
ReadDocument ==
    /\ pc = "start"
    /\ \E d \in Documents : doc' = d
    /\ pc' = "read"
    /\ UNCHANGED <<linkVars, var_store, cleaned, markdown, cmdVars, pipeVars, optVars>>

\* preprocess_variables, VarStore::parse: parse_variables, clear_variables and
\* replace_variables; a panic of replace_variables aborts the run
PreprocessVariables ==
    /\ pc = "read"
    /\ LET text == Concat(doc)
           map == ParseVariables(EmptyMap, text)
           clean == ClearVariables(text)
           out == ReplaceVariables(map, clean)
       IN  /\ var_store' = map
           /\ cleaned' = clean
           /\ markdown' = out
           /\ pc' = IF out = Panic THEN "aborted" ELSE "preprocessed"
    /\ UNCHANGED <<linkVars, doc, cmdVars, pipeVars, optVars>>

NextVars == ReadDocument \/ PreprocessVariables

SpecVars == Init /\ [][NextVars]_vars

\* apply_commands parses the rendered html: kuchiki::parse_html().one(html)
ParseHtml ==
    /\ pc = "start"
    /\ \E t \in Trees : document' = t
    /\ pc' = "parsed"
    /\ UNCHANGED <<linkVars, storeVars, mutated, html_out, pipeVars, optVars>>

\* apply_commands walks the tree and returns the stripped serialization; a
\* panic in the walk aborts the run
ApplyCommandsCall ==
    /\ pc = "parsed"
    /\ LET out == ApplyCommands(document)
       IN  /\ html_out' = out
           /\ pc' = IF out = Panic THEN "aborted" ELSE "applied"
    /\ mutated' = VisitFrom(document, 1)
    /\ UNCHANGED <<linkVars, storeVars, document, pipeVars, optVars>>

NextCmds == ParseHtml \/ ApplyCommandsCall

SpecCmds == Init /\ [][NextCmds]_vars

(***************************************************************************)
(* lib.rs: to_html_and_save, to_html and get_body_html, stage by stage.    *)
(* pc is the stage that has completed; result is what to_html_and_save     *)
(* gives its caller: "Ok", "Err", or "panic" when the call unwinds.        *)
(***************************************************************************)
\* Result::expect: an Err panics
Expect(r) == IF r = "Err" THEN "panic" ELSE r

\* a variant of ReadSource that opens the output file before it reads
ReadSourceAfterCreate ==
    /\ pc = "start"
    /\ out_file' = "created"
    /\ \E d \in PipeDocuments, readable \in BOOLEAN :
          /\ doc' = (IF readable THEN d ELSE <<>>)
          /\ body' = (IF readable THEN "none" ELSE "Err")
          /\ result' = (IF readable THEN "none" ELSE Expect("Err"))
          /\ pc' = (IF readable THEN "source_read" ELSE "ended")
    /\ UNCHANGED <<linkVars, var_store, cleaned, markdown, cmdVars, linked, combined, optVars>>

\* get_body_html reads the source: fs::read_to_string(&self.input_file)?. A
\* failure makes get_body_html return Err, which to_html hands to
\* expect("Couldn't load Body")
ReadSource ==
    /\ pc = "start"
    /\ \E d \in PipeDocuments, readable \in BOOLEAN :
          /\ doc' = (IF readable THEN d ELSE <<>>)
          /\ body' = (IF readable THEN "none" ELSE "Err")
          /\ result' = (IF readable THEN "none" ELSE Expect("Err"))
          /\ pc' = (IF readable THEN "source_read" ELSE "ended")
    /\ UNCHANGED <<linkVars, var_store, cleaned, markdown, cmdVars,
                   linked, combined, out_file, optVars>>

\* get_body_html: the variable block and the references
SubstituteVariables ==
    /\ pc = "source_read"
    /\ LET text == Concat(doc)
           map == ParseVariables(EmptyMap, text)
           clean == ClearVariables(text)
           out == ReplaceVariables(map, clean)
       IN  /\ var_store' = map
           /\ cleaned' = clean
           /\ markdown' = out
           /\ pc' = (IF out = Panic THEN "ended" ELSE "substituted")
           /\ result' = (IF out = Panic THEN "panic" ELSE result)
    /\ UNCHANGED <<linkVars, doc, cmdVars, body, linked, combined, out_file, optVars>>

\* get_body_html: fix each found link
RewriteLinks ==
    /\ pc = "substituted"
    /\ LET out == FixLinks(markdown, PipeInputFile, PipeOutputDir, S_wiki, WikiFiles)
       IN  /\ linked' = out
           /\ pc' = (IF out = Panic THEN "ended" ELSE "rewritten")
           /\ result' = (IF out = Panic THEN "panic" ELSE result)
    /\ UNCHANGED <<linkVars, storeVars, cmdVars, body, combined, out_file, optVars>>

\* get_body_html: get_html(text) and kuchiki::parse_html().one(html), both
\* of libraries outside the repository: any tree
Render ==
    /\ pc = "rewritten"
    /\ \E t \in PipeTrees : document' = t
    /\ pc' = "rendered"
    /\ UNCHANGED <<linkVars, storeVars, mutated, html_out, pipeVars, optVars>>

\* get_body_html: the walk over the text nodes and the strip; Ok(..)
ApplyDirectives ==
    /\ pc = "rendered"
    /\ LET out == ApplyCommands(document)
       IN  /\ html_out' = out
           /\ body' = (IF out = Panic THEN body ELSE "Ok")
           /\ pc' = (IF out = Panic THEN "ended" ELSE "applied")
           /\ result' = (IF out = Panic THEN "panic" ELSE result)
    /\ mutated' = VisitFrom(document, 1)
    /\ UNCHANGED <<linkVars, storeVars, document, linked, combined, out_file, optVars>>

\* to_html: template_html.replace("%content%", &body_html); Ok(combined)
InsertTemplate ==
    /\ pc = "applied"
    /\ Expect(body) = "Ok"
    /\ combined' = Replace(Template, S_content, html_out)
    /\ pc' = "templated"
    /\ UNCHANGED <<linkVars, storeVars, cmdVars, body, linked, out_file, result, optVars>>

\* to_html_and_save: fs::File::create(..)?, which creates or truncates
CreateFile ==
    /\ pc = "templated"
    /\ \E created \in BOOLEAN :
          /\ out_file' = (IF created THEN "created" ELSE out_file)
          /\ result' = (IF created THEN result ELSE "Err")
          /\ pc' = (IF created THEN "created" ELSE "ended")
    /\ UNCHANGED <<linkVars, storeVars, cmdVars, body, linked, combined, optVars>>

\* to_html_and_save: write!(file, "{}", html)?; Ok(())
WriteFile ==
    /\ pc = "created"
    /\ \E written \in BOOLEAN :
          /\ out_file' = (IF written THEN "written" ELSE out_file)
          /\ result' = (IF written THEN "Ok" ELSE "Err")
    /\ pc' = "ended"
    /\ UNCHANGED <<linkVars, storeVars, cmdVars, body, linked, combined, optVars>>

NextPipe ==
    \/ ReadSource \/ SubstituteVariables \/ RewriteLinks \/ Render
    \/ ApplyDirectives \/ InsertTemplate \/ CreateFile \/ WriteFile

SpecPipe == Init /\ [][NextPipe]_vars

\* the plugin's argument vector is handed to VimWikiOptions::new
OptionsNew ==
    /\ pc = "start"
    /\ \E v \in ArgVectors :
          /\ args' = v
          /\ options' = VimWikiOptionsNew(v)
    /\ pc' = "constructed"
    /\ UNCHANGED <<linkVars, storeVars, cmdVars, pipeVars>>

NextOptions == OptionsNew

SpecOptions == Init /\ [][NextOptions]_vars

(***************************************************************************)
(* Claims about the link rewriter                                          *)
(***************************************************************************)
Linked == pc \in {"linked", "relinked"}
InputDir == PathParent(input_file)
Internal == IsVimwikiLink(InputDir, uri, S_wiki, files)
Wrap(a, r) == <<"[">> \o a \o <<"]", "(">> \o r \o <<")">>
HashCount(u) == Cardinality({i \in 1..Len(u) : u[i] = "#"})
BeforeHash(u) == Split(u, "#")[1]
AfterHash(u) == Split(u, "#")[2]
HasTitleRun(u) == \E i \in 1..Len(u) : TitleMatchAt(u, i)
\* the part of u before its first title run, and the title after that run's quote
BeforeTitle(u) == Take(u, MinOf({i \in 1..Len(u) : TitleMatchAt(u, i)}) - 1)
AfterTitle(u) == Drop(u, WsRunEnd(u, MinOf({i \in 1..Len(u) : TitleMatchAt(u, i)})))
\* the target a prefixed path p names: p itself when absolute, else under input_dir
TargetOf(p) == Clean(IF IsAbsolute(p) THEN p ELSE Join(InputDir, p))

\* C1: for a URI with at most one '#' whose path part, under input_dir and with
\* the wiki extension, is an existing regular file, fix_link returns
\* "[T](<path without its extension>.html)", followed by "#" and the fragment
\* with its spaces as %20 when there is a fragment.
C1_InternalLinkToHtml ==
    (Linked /\ HashCount(uri) <= 1
        /\ IsFile(WithExtension(Join(InputDir, BeforeHash(uri)), S_wiki), files))
    => link = Wrap(alt, WithExtension(BeforeHash(uri), <<>>) \o S_html
                        \o (IF HashCount(uri) = 1
                            THEN <<"#">> \o HandleSpaces(AfterHash(uri))
                            ELSE <<>>))

\* C2: for a non-internal URI local:<p> (no title) and absolute input and output
\* directories, fix_link returns "[alt](r)" with r relative and output_dir
\* joined with r, cleaned, equal to the cleaned target of p (spaces as %20).
C2_LocalIsRelativeToOutput ==
    (Linked /\ ~Internal /\ StartsWith(uri, S_local) /\ ~HasTitleRun(uri)
        /\ IsAbsolute(InputDir) /\ IsAbsolute(output_dir))
    => /\ link # Panic
       /\ link = Wrap(alt, LinkUri(link, alt))
       /\ ~IsAbsolute(LinkUri(link, alt))
       /\ Clean(Join(output_dir, LinkUri(link, alt)))
            = HandleSpaces(TargetOf(Drop(uri, Len(S_local))))

\* C3: for a non-internal URI file:<p> (no title), fix_link returns "[alt](a)"
\* with a the cleaned absolute path of p, spaces as %20, whatever output_dir is.
C3_FileIsAbsolute ==
    (Linked /\ ~Internal /\ StartsWith(uri, S_file) /\ ~HasTitleRun(uri))
    => link = Wrap(alt, HandleSpaces(TargetOf(Drop(uri, Len(S_file)))))

\* the shape of URI that C4 is about: no prefix, no space, no "." segment and
\* no ".." segment after a real segment
C4_Shape(u) ==
    LET segs == Split(u, "/")
        real(i) == segs[i] \notin {<<>>, CurDir, ParentDir}
    IN  /\ ~StartsWith(u, S_file) /\ ~StartsWith(u, S_local)
        /\ \A i \in 1..Len(u) : u[i] # " "
        /\ \A i \in 1..Len(segs) : segs[i] # CurDir
        /\ \A i \in 1..Len(segs) :
              segs[i] = ParentDir => \A j \in 1..(i - 1) : ~real(j)

\* C4: a non-internal URI without prefix, without a space, without a "."
\* segment and without a ".." segment after a real segment is returned
\* unchanged, character for character.
C4_PlainUriUnchanged ==
    (Linked /\ ~Internal /\ C4_Shape(uri)) => link = Wrap(alt, uri)

\* C5 as claimed: for a non-internal URI without prefix, fix_link applied to the
\* URI that a first call produced returns the link of the first call.
C5_Idempotent ==
    (pc = "relinked" /\ ~Internal
        /\ ~StartsWith(uri, S_file) /\ ~StartsWith(uri, S_local))
    => link2 = link

\* C5 as amended: the same, for a URI whose only whitespace is the space
\* character and whose rewritten URI again has no prefix and is again not
\* classified wiki-internal.
C5_IdempotentOnResolved ==
    (pc = "relinked" /\ ~Internal
        /\ ~StartsWith(uri, S_file) /\ ~StartsWith(uri, S_local)
        /\ (\A i \in 1..Len(uri) : IsWs(uri[i]) => uri[i] = " ")
        /\ ~StartsWith(LinkUri(link, alt), S_file)
        /\ ~StartsWith(LinkUri(link, alt), S_local)
        /\ ~IsVimwikiLink(InputDir, LinkUri(link, alt), S_wiki, files))
    => link2 = link

\* a second call that had something to keep: the first call changed the URI
C5_Witness ==
    /\ pc = "relinked" /\ ~Internal
    /\ ~StartsWith(uri, S_file) /\ ~StartsWith(uri, S_local)
    /\ (\A i \in 1..Len(uri) : IsWs(uri[i]) => uri[i] = " ")
    /\ ~StartsWith(LinkUri(link, alt), S_file)
    /\ ~StartsWith(LinkUri(link, alt), S_local)
    /\ ~IsVimwikiLink(InputDir, LinkUri(link, alt), S_wiki, files)
    /\ HasTitleRun(uri)
    /\ Contains(link, S_pct20)
    /\ link # Wrap(alt, uri)
    /\ link2 = link

\* the normalized part before the title: prefix handling, cleaning, %20
NormalizedPart(u) ==
    IF RestPath(u, InputDir, output_dir) = None THEN Panic
    ELSE HandleSpaces(Clean(RestPath(u, InputDir, output_dir)))

WithTitle(u) ==
    IF NormalizedPart(BeforeTitle(u)) = Panic THEN Panic
    ELSE Wrap(alt, NormalizedPart(BeforeTitle(u)) \o <<" ", "\"">> \o AfterTitle(u))

IsBlock(piece) == StartsWith(piece, S_defOpen)
IsMarker(piece) == StartsWith(piece, S_markOpen) /\ EndsWith(piece, S_markClose)
BlockCount == Cardinality({i \in 1..Len(doc) : IsBlock(doc[i])})
TheBlock == doc[CHOOSE i \in 1..Len(doc) : IsBlock(doc[i])]
\* the key{value} pairs a definition block is written with
DefinedIn(block) ==
    IF block = Block_k THEN [n \in {<<"k">>} |-> <<"v">>]
    ELSE [n \in {<<"k">>, <<"j">>} |-> IF n = <<"k">> THEN <<"v">> ELSE <<"w", " ", "x">>]
\* a name is the run of characters after a dollar, up to white space or a brace
RECURSIVE NameEnd(_, _)
NameEnd(s, i) ==
    IF i <= Len(s) /\ ~IsWs(s[i]) /\ s[i] # "}" THEN NameEnd(s, i + 1) ELSE i
\* the names a marker refers to
RefNames(marker) ==
    {SubSeq(marker, i + 1, NameEnd(marker, i + 1) - 1) :
        i \in {x \in 1..Len(marker) : marker[x] = "$"}}
\* a marker with every $name of the map replaced by the value of the name
RECURSIVE SubstAll(_, _)
SubstAll(map, s) ==
    IF s = <<>> THEN <<>>
    ELSE IF Head(s) = "$" /\ SubSeq(s, 2, NameEnd(s, 2) - 1) \in DOMAIN map
    THEN map[SubSeq(s, 2, NameEnd(s, 2) - 1)] \o SubstAll(map, Drop(s, NameEnd(s, 2) - 1))
    ELSE <<Head(s)>> \o SubstAll(map, Tail(s))
\* what the claim expects of one piece of the document
ExpectedPiece(map, piece) ==
    IF IsBlock(piece) THEN <<>>
    ELSE IF IsMarker(piece) THEN SubstAll(map, piece)
    ELSE piece
ExpectedDocument(map) == Concat([i \in 1..Len(doc) |-> ExpectedPiece(map, doc[i])])
UndefinedNames ==
    UNION {RefNames(doc[i]) : i \in {x \in 1..Len(doc) : IsMarker(doc[x])}}
        \ (IF BlockCount = 0 THEN {} ELSE DOMAIN DefinedIn(TheBlock))

\* C7: in a document with one definition block, preprocessing turns every
\* marker '{<before>$k<after>}' of a defined key k into '{<before>v<after>}' with
\* v the value of k, keeps everything else, and leaves nothing of the block.
C7_EveryReferenceSubstituted ==
    (pc = "preprocessed" /\ BlockCount = 1)
        => /\ markdown = ExpectedDocument(DefinedIn(TheBlock))
           /\ ~Contains(markdown, S_defOpen)
           /\ ~Contains(markdown, S_defClose)

\* C7: a run that returns with a reference to a defined key left in place
C7_ReferenceLeftInPlace ==
    /\ pc = "preprocessed"
    /\ BlockCount = 1
    /\ UndefinedNames = {}
    /\ \E n \in DOMAIN DefinedIn(TheBlock) : Contains(markdown, <<"$">> \o n)

\* C8: a document in which some marker refers to a name that the definition
\* block does not define never gets through preprocessing: the run aborts.
C8_UndefinedAlwaysFatal ==
    (pc \in {"preprocessed", "aborted"} /\ BlockCount <= 1 /\ UndefinedNames # {})
        => pc = "aborted"

\* C8: a run that returns a text with an undefined $name left in place
C8_UndefinedPassedThrough ==
    /\ pc = "preprocessed"
    /\ BlockCount <= 1
    /\ \E n \in UndefinedNames : Contains(markdown, <<"$">> \o n)

(***************************************************************************)
(* Claims about the directive applier                                      *)
(***************************************************************************)
Applied == pc = "applied"
KidIdx == 1..Len(document.kids)
TextKids == {i \in KidIdx : document.kids[i].tag = "text"}
EmKids == {i \in KidIdx : document.kids[i].tag = "em"}
\* the markers of a text, left to right, as the captures of the pattern
RECURSIVE MarkersOf(_)
MarkersOf(text) ==
    IF CmdStarts(text) = {} THEN <<>>
    ELSE <<FirstCmd(text)>> \o MarkersOf(Drop(text, FirstCmd(text).last))
Accepted(m) == m.element \in ParentElements /\ m.type \in StyleTypes
\* the data of the accepted markers of a text, left to right
AcceptedData(text) ==
    LET ms == MarkersOf(text)
        RECURSIVE Pick(_)
        Pick(i) == IF i > Len(ms) THEN <<>>
                   ELSE (IF Accepted(ms[i]) THEN <<ms[i].data>> ELSE <<>>) \o Pick(i + 1)
    IN  Pick(1)
\* the data of the accepted markers of the paragraph's own text nodes, in
\* document order
RECURSIVE ParagraphData(_)
ParagraphData(i) ==
    IF i > Len(document.kids) THEN <<>>
    ELSE (IF i \in TextKids THEN AcceptedData(document.kids[i].text) ELSE <<>>)
            \o ParagraphData(i + 1)

MarkedTextKids == {i \in TextKids : CmdStarts(document.kids[i].text) # {}}
\* the style the walk leaves on the paragraph: the data of the first marker of
\* its last text node that holds one, else the style it came with
ParagraphStyle ==
    IF MarkedTextKids = {} THEN document.style
    ELSE FirstCmd(document.kids[MaxOf(MarkedTextKids)].text).data
EmStyle(i) ==
    IF CmdStarts(document.kids[i].text) = {} THEN document.kids[i].style
    ELSE FirstCmd(document.kids[i].text).data
\* every '{ of a text opens a marker of that text, and no honored data holds
\* a '{: no match of the pattern in the serialized tree reaches a tag
MarkersApart ==
    /\ \A i \in KidIdx :
          LET text == document.kids[i].text
          IN  \A x \in 1..Len(text) :
                 At(text, x, S_markOpen) => CmdCapture(text, x).matched
    /\ ~Contains(ParagraphStyle, S_markOpen)
    /\ \A i \in EmKids : ~Contains(EmStyle(i), S_markOpen)

C10_NoMarkerInOutput == Applied => CmdStarts(html_out) = {}

\* the markers of the text nodes whose target or type is not of the vocabulary
UnknownTokens ==
    {<<i, k>> \in KidIdx \X (1..8) :
        /\ k <= Len(MarkersOf(document.kids[i].text))
        /\ ~Accepted(MarkersOf(document.kids[i].text)[k])}

\* C11: when a text node holds a marker whose type is not one of s..style or
\* whose target is not one of p..parent, wherever the marker stands in its text
\* node, directive application aborts and returns no HTML.
C11_UnknownTokenAlwaysAborts ==
    (pc \in {"applied", "aborted"} /\ UnknownTokens # {}) => pc = "aborted"

\* C11: a run that returns HTML although a text node holds an unknown token
C11_UnknownTokenPassed ==
    /\ pc = "applied"
    /\ UnknownTokens # {}
    /\ \A i \in KidIdx : CmdStarts(document.kids[i].text) # {}
          => Accepted(FirstCmd(document.kids[i].text))

(***************************************************************************)
(* Claims about the pipeline                                               *)
(***************************************************************************)
\* every stage of the run has completed
AllStagesDone ==
    /\ pc \in {"templated", "created", "ended"}
    /\ markdown # Panic /\ linked # Panic /\ html_out # Panic
    /\ body = "Ok"
    /\ combined = Replace(Template, S_content, html_out)
\* a stage of the run has failed: the source, a variable, a link or a directive
StageFailed == body = "Err" \/ markdown = Panic \/ linked = Panic \/ html_out = Panic

\* C12: the output file is created or written only after every stage (read,
\* variables, links, rendering, directives, template) has completed, and in a
\* run where a stage fails it is never created, truncated or written.
C12_NoPartialOutput ==
    /\ out_file # "untouched" => AllStagesDone
    /\ StageFailed => out_file = "untouched"
    /\ out_file = "written" => result = "Ok"

\* C12: a run that went through a variable and a link and wrote the file
C12_Witness ==
    /\ pc = "ended"
    /\ out_file = "written"
    /\ var_store # EmptyMap
    /\ linked # markdown
    /\ AllStagesDone

(***************************************************************************)
(* Claims about VimWikiOptions::new                                        *)
(***************************************************************************)
\* C13: VimWikiOptions::new(args) returns Ok exactly when args has 12 entries
\* and args[2] is "markdown"; any other length gives the error about the amount
\* of arguments, whatever the syntax is, and 12 entries with another syntax give
\* the error about the syntax.
C13_OptionsOkIffTwelveMarkdown ==
    pc = "constructed" =>
        /\ options.tag = "Ok" <=> (Len(args) = 12 /\ args[3] = S_markdown)
        /\ Len(args) # 12
              => /\ options.tag = "Err" /\ options.msg = "amount"
                 /\ options.provided = Len(args) /\ options.necessary = 12
        /\ (Len(args) = 12 /\ args[3] # S_markdown)
              => options.tag = "Err" /\ options.msg = "syntax"

\* C13: a vector of another length whose syntax is not markdown: the length
\* is what the error names
C13_Witness ==
    /\ pc = "constructed"
    /\ Len(args) = 13
    /\ args[3] # S_markdown
    /\ options.tag = "Err" /\ options.msg = "amount" /\ options.provided = 13

(***************************************************************************)
(* Claims about the links of a document                                    *)
(***************************************************************************)
\* a link as the document writes it: "[", a display text up to the next "](",
\* a uri up to the next ")", all on one line
OwnMiddles(text, a) == {b \in (a + 1)..LineEnd(text, a) : At(text, b, <<"]", "(">>)}
OwnCloses(text, b) == {c \in (b + 2)..LineEnd(text, b) : text[c] = ")"}
OwnStarts(text) ==
    {a \in {x \in 1..Len(text) : text[x] = "["} :
        /\ OwnMiddles(text, a) # {}
        /\ OwnCloses(text, MinOf(OwnMiddles(text, a))) # {}}

\* every link of the text handed to fix_link once, with its own display text
\* and its own uri, and replaced by the result
RECURSIVE EachLinkFixed(_, _, _, _, _)
EachLinkFixed(text, in_file, out_dir, ext, fs) ==
    IF OwnStarts(text) = {} THEN text
    ELSE LET a == MinOf(OwnStarts(text))
             b == MinOf(OwnMiddles(text, a))
             c == MinOf(OwnCloses(text, b))
             fixed == FixLink(SubSeq(text, a + 1, b - 1), SubSeq(text, b + 2, c - 1),
                              in_file, out_dir, ext, fs)
             rest == EachLinkFixed(Drop(text, c), in_file, out_dir, ext, fs)
         IN  IF fixed = Panic \/ rest = Panic THEN Panic
             ELSE Take(text, a - 1) \o fixed \o rest

\* C14: every markdown link of the document is passed to fix_link exactly once,
\* with its own display text and uri, several links on one line included: the
\* text after the link stage is the text before it with each link replaced by
\* what fix_link returns for that link.
C14_EveryLinkRewritten ==
    pc = "rewritten" =>
        linked = EachLinkFixed(markdown, PipeInputFile, PipeOutputDir, S_wiki, WikiFiles)

\* C14: two links on one line; the first one comes out as it went in, as part
\* of the display text of the second
C14_FirstLinkOfLineSkipped ==
    /\ pc = "rewritten"
    /\ doc = <<Link_p, Link_ps>>
    /\ linked = Link_p \o <<"[", "U", "]", "(", "p">> \o S_html \o <<"#", "s", ")">>
    /\ FixLink(<<"T">>, <<"p">>, PipeInputFile, PipeOutputDir, S_wiki, WikiFiles)
          = <<"[", "T", "]", "(", "p">> \o S_html \o <<")">>

(***************************************************************************)
(* Claims about the fragment of a uri                                      *)
(***************************************************************************)
\* the file is_vimwiki_link looks for when p is taken as the path of the uri
WikiFileOf(p) == WithExtension(Join(InputDir, p), S_wiki)
\* the internal target for path p: its parent joined with its stem, and .html
HtmlOf(p) == Join(PathParent(p), FileStem(p)) \o S_html
HasStem(p) == PathParent(p) # None /\ FileStem(p) # None

\* C15: a uri with more than one '#' has no fragment: the classification looks
\* for the whole uri as the path and the rewriting turns the whole uri into the
\* target, with no fragment appended; a uri with exactly one '#' is split into
\* the path before it and the fragment after it.
C15_ManyHashesNoFragment ==
    Linked =>
        /\ HashCount(uri) >= 2 =>
              /\ Internal <=> IsFile(WikiFileOf(uri), files)
              /\ (Internal /\ HasStem(uri)) => link = Wrap(alt, HtmlOf(uri))
              /\ (~Internal /\ link # Panic)
                    => link = Wrap(alt, FixLinkRest(uri, InputDir, output_dir))
        /\ HashCount(uri) = 1 =>
              /\ Internal <=> IsFile(WikiFileOf(BeforeHash(uri)), files)
              /\ (Internal /\ HasStem(BeforeHash(uri)))
                    => link = Wrap(alt, HtmlOf(BeforeHash(uri)) \o <<"#">>
                                            \o HandleSpaces(AfterHash(uri)))

\* C15: "p.wiki#s#t" beside an existing p.wiki is internal, because the whole
\* uri with the wiki extension names p.wiki, and comes out without any '#'
C15_Witness ==
    /\ Linked
    /\ uri = <<"p", ".">> \o S_wiki \o <<"#", "s", "#", "t">>
    /\ Internal
    /\ link = Wrap(alt, <<"p">> \o S_html)

\* the stages after the read have left nothing behind
NoLaterStage ==
    /\ var_store = EmptyMap /\ cleaned = <<>> /\ markdown = <<>>
    /\ linked = <<>> /\ document = EmptyTree /\ html_out = <<>>
    /\ combined = <<>> /\ out_file = "untouched"

\* C16: when reading the source fails, to_html and to_html_and_save return
\* Err to their caller instead of aborting, and no later stage runs.
C16_ReadFailureReturnsErr ==
    (pc = "ended" /\ body = "Err") => (result = "Err" /\ NoLaterStage)

\* C16: the read has failed, nothing else has run, and the call has ended in
\* a panic
C16_ReadFailurePanics ==
    /\ pc = "ended"
    /\ body = "Err"
    /\ NoLaterStage
    /\ result = "panic"

(***************************************************************************)
(* Claims about the totality of fix_link                                   *)
(***************************************************************************)
\* C17: fix_link is total: for every display text, every uri, every input
\* file with a parent directory, every output directory and every file system
\* it returns a link and never aborts.
C17_FixLinkTotal ==
    (Linked /\ InputDir # None) => link # Panic

\* C17: the fragment-only uri "#s" in /a/b/m.wiki while /a/b.wiki exists: the
\* empty path with the wiki extension names that file, the link counts as
\* internal, and the empty path has no parent to unwrap
C17_FragmentOnlyAborts ==
    /\ Linked
    /\ InputDir # None
    /\ uri = <<"#", "s">>
    /\ Internal
    /\ link = Panic

(***************************************************************************)
(* Claims about the removal of the definition block                        *)
(***************************************************************************)
Preprocessed == pc \in {"preprocessed", "aborted"}
FirstBlock == doc[MinOf({i \in 1..Len(doc) : IsBlock(doc[i])})]
\* the document without its definition blocks
OutsideBlocks ==
    Concat([i \in 1..Len(doc) |-> IF IsBlock(doc[i]) THEN <<>> ELSE doc[i]])

\* C18: stripping the definition blocks removes the blocks and nothing else,
\* also when the document has two or more of them: the text handed to the
\* substitution is the document without its blocks, and the variable map holds
\* the pairs of the first block only.
C18_OnlyBlocksRemoved ==
    Preprocessed =>
        /\ cleaned = OutsideBlocks
        /\ var_store = (IF BlockCount = 0 THEN EmptyMap ELSE DefinedIn(FirstBlock))

\* C18: two blocks with a "t" between them: the "t" is gone with the blocks,
\* and the map has a key made of the end of the first block, the "t" and the
\* start of the second
C18_TextBetweenBlocksRemoved ==
    /\ Preprocessed
    /\ doc = <<Block_k, <<"t">>, Block_k>>
    /\ cleaned = <<>>
    /\ (S_defClose \o <<"t">> \o S_defOpen \o <<"k">>) \in DOMAIN var_store

====
